---- MODULE Spec2Model ----
(***************************************************************************)
(* Model of agents/adk_nextjs/agent.py: the three tools of the agent       *)
(* (create_request_form, return_form, reimburse) over the module-level     *)
(* set request_ids, and the escalation flags return_form writes on the     *)
(* caller's tool context.                                                  *)
(*                                                                         *)
(* Python values are tagged records [t, v]:                                *)
(*   str   v is the string            null  Python None                    *)
(*   dict  v is the sequence of <<key, value>> pairs in insertion order    *)
(*   list  v is the sequence of values                                     *)
(*   text  a str holding JSON text, v is its sequence of JSON tokens       *)
(*   raise an exception leaving the call, v is the exception's class       *)
(***************************************************************************)
EXTENDS Integers, Sequences, FiniteSets, TLC

VARIABLES
    request_ids,      \* the module-level set of created request ids
    op,               \* the tool called last
    args,             \* its arguments
    result,           \* what it returned, or the exception that left it
    tool_context,     \* tool_context.actions of the last call that was given one
    created,          \* history: how many create_request_form calls were made
    minted,           \* history: the request ids create_request_form has returned
    approved_earlier, \* history: the ids reimburse approved before the last call
    pc, rid, known_at_start, outcome, returned
                      \* the conversations of the concurrent specification

history_vars == <<created, minted, approved_earlier>>
conc_vars == <<pc, rid, known_at_start, outcome, returned>>
vars == <<request_ids, op, args, result, tool_context, created, minted,
          approved_earlier, pc, rid, known_at_start, outcome, returned>>

-----------------------------------------------------------------------------
(* Bounds of the model *)

\* how many of the integers of random.randint's range the model draws from
IdSpan == 2
\* how many create_request_form calls a run makes
MaxCreates == 2
\* how many conversations share the registry in the concurrent specification
NumConversations == 2

(* Program constants *)
RandLo == 1000000
RandHi == 9999999

-----------------------------------------------------------------------------
(* Python values *)

Str(s) == [t |-> "str", v |-> s]
None == [t |-> "null", v |-> ""]
Dict(items) == [t |-> "dict", v |-> items]
List(items) == [t |-> "list", v |-> items]
Text(tokens) == [t |-> "text", v |-> tokens]
Raise(cls) == [t |-> "raise", v |-> cls]

\* isinstance(x, str)
IsStr(x) == x.t \in {"str", "text"}

\* Python truthiness of a str | None argument: None and '' are falsy
Truthy(x) == ~(x.t = "null" \/ (x.t = "str" /\ x.v = ""))

\* dict.keys() as a list, in insertion order
Keys(d) == [i \in 1..Len(d.v) |-> d.v[i][1]]

HasKey(d, k) == \E i \in 1..Len(d.v) : d.v[i][1] = k

\* d[k]
Get(d, k) == d.v[CHOOSE i \in 1..Len(d.v) : d.v[i][1] = k][2]

\* items after d[k] = val: an existing key keeps its position
DictSet(items, k, val) ==
    IF \E i \in 1..Len(items) : items[i][1] = k
    THEN [i \in 1..Len(items) |-> IF items[i][1] = k THEN <<k, val>> ELSE items[i]]
    ELSE Append(items, <<k, val>>)

-----------------------------------------------------------------------------
(* JSON text, at the granularity of tokens *)

P(c) == [k |-> "punct", s |-> c]
SLit(s) == [k |-> "string", s |-> s]
NullTok == [k |-> "null", s |-> "null"]
Word(w) == [k |-> "word", s |-> w]

RECURSIVE DumpsTokens(_)
RECURSIVE DumpsElements(_, _)
RECURSIVE DumpsMembers(_, _)

DumpsElements(items, i) ==
    IF i > Len(items) THEN <<>>
    ELSE DumpsTokens(items[i])
         \o (IF i < Len(items) THEN <<P(",")>> ELSE <<>>)
         \o DumpsElements(items, i + 1)

DumpsMembers(items, i) ==
    IF i > Len(items) THEN <<>>
    ELSE <<SLit(items[i][1]), P(":")>> \o DumpsTokens(items[i][2])
         \o (IF i < Len(items) THEN <<P(",")>> ELSE <<>>)
         \o DumpsMembers(items, i + 1)

DumpsTokens(x) ==
    CASE x.t = "str" -> <<SLit(x.v)>>
      [] x.t = "null" -> <<NullTok>>
      [] x.t = "list" -> <<P("[")>> \o DumpsElements(x.v, 1) \o <<P("]")>>
      [] x.t = "dict" -> <<P("{")>> \o DumpsMembers(x.v, 1) \o <<P("}")>>

\* json.dumps(x)
json_dumps(x) == Text(DumpsTokens(x))

ParseOk(val, next) == [ok |-> TRUE, val |-> val, next |-> next]
ParseFail == [ok |-> FALSE, val |-> None, next |-> 0]

RECURSIVE ParseValue(_, _)
RECURSIVE ParseMembers(_, _, _)
RECURSIVE ParseElements(_, _, _)

ParseMembers(toks, i, acc) ==
    IF i + 1 > Len(toks) \/ toks[i].k # "string" \/ toks[i + 1] # P(":")
    THEN ParseFail
    ELSE LET r == ParseValue(toks, i + 2) IN
         IF ~r.ok \/ r.next > Len(toks) THEN ParseFail
         ELSE LET acc2 == DictSet(acc, toks[i].s, r.val) IN
              IF toks[r.next] = P("}") THEN ParseOk(Dict(acc2), r.next + 1)
              ELSE IF toks[r.next] = P(",") THEN ParseMembers(toks, r.next + 1, acc2)
              ELSE ParseFail

ParseElements(toks, i, acc) ==
    LET r == ParseValue(toks, i) IN
    IF ~r.ok \/ r.next > Len(toks) THEN ParseFail
    ELSE LET acc2 == Append(acc, r.val) IN
         IF toks[r.next] = P("]") THEN ParseOk(List(acc2), r.next + 1)
         ELSE IF toks[r.next] = P(",") THEN ParseElements(toks, r.next + 1, acc2)
         ELSE ParseFail

ParseValue(toks, i) ==
    IF i > Len(toks) THEN ParseFail
    ELSE CASE toks[i].k = "string" -> ParseOk(Str(toks[i].s), i + 1)
           [] toks[i].k = "null" -> ParseOk(None, i + 1)
           [] toks[i] = P("{") ->
                IF i + 1 <= Len(toks) /\ toks[i + 1] = P("}")
                THEN ParseOk(Dict(<<>>), i + 2)
                ELSE ParseMembers(toks, i + 1, <<>>)
           [] toks[i] = P("[") ->
                IF i + 1 <= Len(toks) /\ toks[i + 1] = P("]")
                THEN ParseOk(List(<<>>), i + 2)
                ELSE ParseElements(toks, i + 1, <<>>)
           [] OTHER -> ParseFail

\* json.loads(s): the value, or JSONDecodeError (also on trailing data)
json_loads(s) ==
    LET r == ParseValue(s.v, 1) IN
    IF r.ok /\ r.next = Len(s.v) + 1 THEN r.val ELSE Raise("JSONDecodeError")

-----------------------------------------------------------------------------
(* The tools *)

\* random.randint(RandLo, RandHi), restricted to the first IdSpan integers
RandInts == {n \in RandLo..(RandLo + IdSpan - 1) : n <= RandHi}

\* 'request_id_' + str(n)
request_id_of(n) == "request_id_" \o ToString(n)

\* a registry that keeps only the newest id
request_ids_replace(ids, request_id) == {request_id}

\* request_ids.add(request_id)
request_ids_add(ids, request_id) == ids \cup {request_id}

\* placeholders substituted for None only ("is None" in place of "not")
create_request_form_result_none_only(request_id, date, amount, purpose) ==
    Dict(<< <<"request_id", Str(request_id)>>,
            <<"date", IF date.t = "null" THEN Str("<transaction date>") ELSE date>>,
            <<"amount", IF amount.t = "null" THEN Str("<transaction dollar amount>")
                        ELSE amount>>,
            <<"purpose", IF purpose.t = "null"
                         THEN Str("<business justification/purpose of the transaction>")
                         ELSE purpose>> >>)

\* the dictionary create_request_form returns
create_request_form_result(request_id, date, amount, purpose) ==
    Dict(<< <<"request_id", Str(request_id)>>,
            <<"date", IF ~Truthy(date) THEN Str("<transaction date>") ELSE date>>,
            <<"amount", IF ~Truthy(amount) THEN Str("<transaction dollar amount>")
                        ELSE amount>>,
            <<"purpose", IF ~Truthy(purpose)
                         THEN Str("<business justification/purpose of the transaction>")
                         ELSE purpose>> >>)

\* the 'properties' object of the form schema
form_properties ==
    Dict(<< <<"date", Dict(<< <<"type", Str("string")>>,
                              <<"format", Str("date")>>,
                              <<"description", Str("Date of expense")>>,
                              <<"title", Str("Date")>> >>)>>,
            <<"amount", Dict(<< <<"type", Str("string")>>,
                                <<"format", Str("number")>>,
                                <<"description", Str("Amount of expense")>>,
                                <<"title", Str("Amount")>> >>)>>,
            <<"purpose", Dict(<< <<"type", Str("string")>>,
                                 <<"description", Str("Purpose of expense")>>,
                                 <<"title", Str("Purpose")>> >>)>>,
            <<"request_id", Dict(<< <<"type", Str("string")>>,
                                    <<"description", Str("Request id")>>,
                                    <<"title", Str("Request ID")>> >>)>> >>)

\* a form whose 'required' is the fixed list of the four fields
form_dict_fixed_required(form_request, instructions) ==
    Dict(<< <<"type", Str("form")>>,
            <<"form", Dict(<< <<"type", Str("object")>>,
                              <<"properties", form_properties>>,
                              <<"required", List(<<Str("request_id"), Str("date"),
                                                   Str("amount"), Str("purpose")>>)>> >>)>>,
            <<"form_data", form_request>>,
            <<"instructions", instructions>> >>)

\* form_dict, built from the (deserialized) form_request
form_dict(form_request, instructions) ==
    Dict(<< <<"type", Str("form")>>,
            <<"form", Dict(<< <<"type", Str("object")>>,
                              <<"properties", form_properties>>,
                              <<"required", List([i \in 1..Len(form_request.v) |->
                                                      Str(Keys(form_request)[i])])>> >>)>>,
            <<"form_data", form_request>>,
            <<"instructions", instructions>> >>)

\* form_request after "if isinstance(form_request, str): json.loads(form_request)"
return_form_loaded(form_request) ==
    IF IsStr(form_request) THEN json_loads(form_request) ELSE form_request

\* tool_context.actions once return_form has left: the two writes happen after
\* json.loads and before form_dict is built
return_form_context(form_request, ctx) ==
    IF return_form_loaded(form_request).t = "raise" THEN ctx
    ELSE [ctx EXCEPT !.skip_summarization = TRUE, !.escalate = TRUE]

\* what return_form returns, or the exception that leaves it
return_form_result(form_request, instructions) ==
    LET loaded == return_form_loaded(form_request) IN
    IF loaded.t = "raise" THEN loaded
    ELSE IF loaded.t # "dict" THEN Raise("AttributeError")
    ELSE json_dumps(form_dict(loaded, instructions))

\* a reimburse that approves whatever it is asked about
reimburse_result_always_approved(request_id, ids) ==
    Dict(<< <<"request_id", Str(request_id)>>, <<"status", Str("approved")>> >>)

\* what reimburse returns
reimburse_result(request_id, ids) ==
    IF request_id \notin ids
    THEN Dict(<< <<"request_id", Str(request_id)>>,
                 <<"status", Str("Error: Invalid request_id.")>> >>)
    ELSE Dict(<< <<"request_id", Str(request_id)>>,
                 <<"status", Str("approved")>> >>)

-----------------------------------------------------------------------------
(* Inputs of the tool calls *)

DateArgs == {None, Str(""), Str("2024-05-01")}
AmountArgs == {None, Str(""), Str("100")}
PurposeArgs == {None, Str(""), Str("team lunch")}
Instructions == {None, Str("Please fill in the missing fields")}

\* ids a caller may ask reimburse about: every id that can be minted and some
\* that cannot
RequestIdArgs == {request_id_of(n) : n \in RandInts}
                 \cup {"nonexistent", "", "request_id_"}

\* tool_context.actions as the runtime hands it to a tool
FreshContext ==
    [skip_summarization |-> FALSE, escalate |-> FALSE, transfer_to_agent |-> None]
Contexts ==
    {FreshContext,
     [skip_summarization |-> TRUE, escalate |-> FALSE,
      transfer_to_agent |-> Str("helper_agent")],
     [skip_summarization |-> FALSE, escalate |-> TRUE, transfer_to_agent |-> None]}

FieldNames == <<"request_id", "date", "amount", "purpose">>
FieldSet == {FieldNames[i] : i \in 1..Len(FieldNames)}

SampleValue(k) ==
    CASE k = "request_id" -> Str(request_id_of(RandLo))
      [] k = "date" -> Str("2024-05-01")
      [] k = "amount" -> Str("100")
      [] k = "purpose" -> Str("team lunch")

Reverse(s) == [i \in 1..Len(s) |-> s[Len(s) + 1 - i]]
InOrder(S) == SelectSeq(FieldNames, LAMBDA k : k \in S)
KeyOrders == {InOrder(S) : S \in SUBSET FieldSet} \cup {Reverse(FieldNames)}

\* snapshots handed over as dictionaries: any subset of the four fields
DictSnapshots ==
    {Dict([i \in 1..Len(ks) |-> <<ks[i], SampleValue(ks[i])>>]) : ks \in KeyOrders}

\* snapshots handed over as JSON text: serialized dictionaries, one cut short,
\* JSON that is not an object, an object repeating a key, and text that is no JSON
Serialized == {json_dumps(d) : d \in {x \in DictSnapshots : Len(x.v) \in {0, 2, 4}}}
TextSnapshots ==
    Serialized
    \cup {Text(SubSeq(x.v, 1, Len(x.v) - 1)) : x \in {y \in Serialized : Len(y.v) > 10}}
    \cup {json_dumps(List(<<Str("date"), Str("amount")>>)), json_dumps(None),
          json_dumps(Str("date")), Text(<<>>),
          Text(<<Word("the"), Word("form")>>),
          Text(<<P("{"), SLit("date"), P(":"), SLit("2024-05-01"), P(","),
                 SLit("amount"), P(":"), SLit("100"), P(","),
                 SLit("date"), P(":"), SLit("2024-06-30"), P("}")>>)}

FormRequests == DictSnapshots \cup TextSnapshots

\* one snapshot of each kind of outcome: a dictionary, its serialization, text
\* that json.loads rejects, and JSON that is not an object
OutcomeSamples ==
    {Dict([i \in 1..Len(FieldNames) |-> <<FieldNames[i], SampleValue(FieldNames[i])>>]),
     json_dumps(Dict(<< <<"date", SampleValue("date")>> >>)),
     Text(<<Word("the"), Word("form")>>),
     json_dumps(List(<<Str("date"), Str("amount")>>))}

\* the calls of return_form: every snapshot with a fresh context, and every
\* context and instructions with one snapshot of each kind
ReturnFormCalls ==
    (FormRequests \X {FreshContext} \X {None})
    \cup (OutcomeSamples \X Contexts \X Instructions)

-----------------------------------------------------------------------------
(* One tool call at a time *)

Conversations == 1..NumConversations

Init ==
    /\ request_ids = {}
    /\ created = 0
    /\ minted = {}
    /\ approved_earlier = {}
    /\ op = "none"
    /\ args = <<>>
    /\ result = None
    /\ tool_context = FreshContext
    /\ pc = [p \in Conversations |-> "idle"]
    /\ rid = [p \in Conversations |-> ""]
    /\ known_at_start = [p \in Conversations |-> FALSE]
    /\ outcome = [p \in Conversations |-> None]
    /\ returned = <<>>

\* the id the last call approved, if it was a reimburse that approved one
ApprovedNow ==
    IF op = "reimburse" /\ Get(result, "status") = Str("approved")
    THEN {args.request_id} ELSE {}

create_request_form ==
    \E n \in RandInts, date \in DateArgs, amount \in AmountArgs, purpose \in PurposeArgs :
        LET request_id == request_id_of(n) IN
        /\ created < MaxCreates
        /\ request_ids' = request_ids_add(request_ids, request_id)
        /\ created' = created + 1
        /\ approved_earlier' = approved_earlier \cup ApprovedNow
        /\ op' = "create_request_form"
        /\ args' = [date |-> date, amount |-> amount, purpose |-> purpose]
        /\ result' = create_request_form_result(request_id, date, amount, purpose)
        /\ minted' = minted \cup {Get(result', "request_id").v}
        /\ UNCHANGED <<tool_context, conc_vars>>

\* the snapshot create_request_form has just returned, handed on by the caller
\* as it is or serialized
PipedCalls ==
    IF op = "create_request_form"
    THEN {result, json_dumps(result)} \X {FreshContext} \X Instructions
    ELSE {}

\* a return_form that mints an id for a snapshot that has none
return_form_minting ==
    \E call \in ReturnFormCalls \cup PipedCalls, n \in RandInts :
        LET loaded == return_form_loaded(call[1])
            absent == loaded.t = "dict" /\ ~HasKey(loaded, "request_id")
            form_request ==
                IF absent
                THEN Dict(<< <<"request_id", Str(request_id_of(n))>> >> \o loaded.v)
                ELSE call[1]
        IN
        /\ request_ids' = IF absent THEN request_ids_add(request_ids, request_id_of(n))
                          ELSE request_ids
        /\ tool_context' = return_form_context(form_request, call[2])
        /\ result' = return_form_result(form_request, call[3])
        /\ op' = "return_form"
        /\ args' = [form_request |-> call[1], tool_context |-> call[2],
                    instructions |-> call[3]]
        /\ approved_earlier' = approved_earlier \cup ApprovedNow
        /\ UNCHANGED <<created, minted, conc_vars>>

return_form ==
    \E call \in ReturnFormCalls \cup PipedCalls :
        LET form_request == call[1]
            ctx == call[2]
            instructions == call[3]
        IN
        /\ tool_context' = return_form_context(form_request, ctx)
        /\ result' = return_form_result(form_request, instructions)
        /\ op' = "return_form"
        /\ args' = [form_request |-> form_request, tool_context |-> ctx,
                    instructions |-> instructions]
        /\ approved_earlier' = approved_earlier \cup ApprovedNow
        /\ UNCHANGED <<request_ids, created, minted, conc_vars>>

\* a reimburse that closes the request it approves
reimburse_evicting ==
    \E request_id \in RequestIdArgs :
        /\ result' = reimburse_result(request_id, request_ids)
        /\ request_ids' = request_ids \ {request_id}
        /\ op' = "reimburse"
        /\ args' = [request_id |-> request_id]
        /\ approved_earlier' = approved_earlier \cup ApprovedNow
        /\ UNCHANGED <<created, minted, tool_context, conc_vars>>

reimburse ==
    \E request_id \in RequestIdArgs :
        /\ result' = reimburse_result(request_id, request_ids)
        /\ op' = "reimburse"
        /\ args' = [request_id |-> request_id]
        /\ approved_earlier' = approved_earlier \cup ApprovedNow
        /\ UNCHANGED <<request_ids, created, minted, tool_context, conc_vars>>

Next == create_request_form \/ return_form \/ reimburse

Spec == Init /\ [][Next]_vars

-----------------------------------------------------------------------------
(* Several conversations on the one registry.  A conversation's tool call   *)
(* runs line by line, and the lines of different conversations interleave;  *)
(* set.add and the membership test are each one step of the interpreter.    *)

\* create_request_form calls begun and not yet returned
CreatesInFlight == Cardinality({p \in Conversations : pc[p] \in {"generated", "added"}})

\* request_id = 'request_id_' + str(random.randint(...))
conv_create_generate ==
    \E p \in Conversations, n \in RandInts :
        /\ pc[p] = "idle"
        /\ Len(returned) + CreatesInFlight < MaxCreates
        /\ rid' = [rid EXCEPT ![p] = request_id_of(n)]
        /\ pc' = [pc EXCEPT ![p] = "generated"]
        /\ UNCHANGED <<request_ids, op, args, result, tool_context, history_vars,
                       known_at_start, outcome, returned>>

\* request_ids.add(request_id)
conv_create_add ==
    \E p \in Conversations :
        /\ pc[p] = "generated"
        /\ request_ids' = request_ids_add(request_ids, rid[p])
        /\ pc' = [pc EXCEPT ![p] = "added"]
        /\ UNCHANGED <<op, args, result, tool_context, history_vars,
                       rid, known_at_start, outcome, returned>>

\* return {...}
conv_create_return ==
    \E p \in Conversations :
        /\ pc[p] = "added"
        /\ outcome' = [outcome EXCEPT
                           ![p] = create_request_form_result(rid[p], None, None, None)]
        /\ returned' = Append(returned, rid[p])
        /\ pc' = [pc EXCEPT ![p] = "idle"]
        /\ UNCHANGED <<request_ids, op, args, result, tool_context, history_vars,
                       rid, known_at_start>>

\* reimburse(request_id) is entered
conv_reimburse_begin ==
    \E p \in Conversations, request_id \in RequestIdArgs :
        /\ pc[p] = "idle"
        /\ rid' = [rid EXCEPT ![p] = request_id]
        /\ known_at_start' =
               [known_at_start EXCEPT
                   ![p] = \E i \in 1..Len(returned) : returned[i] = request_id]
        /\ pc' = [pc EXCEPT ![p] = "testing"]
        /\ UNCHANGED <<request_ids, op, args, result, tool_context, history_vars,
                       outcome, returned>>

\* if request_id not in request_ids: return {...}; return {...}
conv_reimburse_test ==
    \E p \in Conversations :
        /\ pc[p] = "testing"
        /\ outcome' = [outcome EXCEPT ![p] = reimburse_result(rid[p], request_ids)]
        /\ pc' = [pc EXCEPT ![p] = "idle"]
        /\ UNCHANGED <<request_ids, op, args, result, tool_context, history_vars,
                       rid, known_at_start, returned>>

ConcNext ==
    \/ conv_create_generate
    \/ conv_create_add
    \/ conv_create_return
    \/ conv_reimburse_begin
    \/ conv_reimburse_test

ConcSpec == Init /\ [][ConcNext]_vars

-----------------------------------------------------------------------------
(* Properties *)

ApprovedResult(request_id) ==
    Dict(<< <<"request_id", Str(request_id)>>, <<"status", Str("approved")>> >>)
InvalidResult(request_id) ==
    Dict(<< <<"request_id", Str(request_id)>>,
            <<"status", Str("Error: Invalid request_id.")>> >>)

\* the last call was a return_form that returned a form
FormReturned == op = "return_form" /\ result.t = "text"
\* the form it returned, as its consumer reads it
ReturnedForm == json_loads(result)
\* the snapshot the last return_form was given, as a dictionary
GivenSnapshot == return_form_loaded(args.form_request)
\* the last return_form was given text that json.loads rejects
GivenMalformedText ==
    /\ op = "return_form"
    /\ IsStr(args.form_request)
    /\ json_loads(args.form_request).t = "raise"

\* C1: the ids create_request_form has returned are pairwise distinct, so the
\* registry holds as many ids as create_request_form calls were made.
C1_MintedIdsDistinct == Cardinality(request_ids) = created

\* C2: reimburse returns, as an ordinary value, {request_id, 'approved'} exactly
\* when the id was returned by an earlier create_request_form call, and
\* {request_id, 'Error: Invalid request_id.'} for every other id; the returned
\* request_id is the argument.
C2_ApprovalExact ==
    op = "reimburse" =>
        /\ result.t = "dict"
        /\ Keys(result) = <<"request_id", "status">>
        /\ Get(result, "request_id") = Str(args.request_id)
        /\ (Get(result, "status") = Str("approved")) <=> (args.request_id \in minted)
        /\ args.request_id \notin minted => result = InvalidResult(args.request_id)

C2_Witness ==
    /\ op = "reimburse"
    /\ args.request_id \in minted
    /\ result = ApprovedResult(args.request_id)
    /\ approved_earlier = {}

\* C3: reimburse never changes the registry, for known and unknown ids alike, and
\* reimburse of an id that is known when it is called returns {id, 'approved'},
\* whatever was called before.
C3_IdempotentApproval ==
    [][op' = "reimburse" =>
          /\ request_ids' = request_ids
          /\ args'.request_id \in request_ids =>
                 result' = ApprovedResult(args'.request_id)
          /\ args'.request_id \in approved_earlier' =>
                 result' = ApprovedResult(args'.request_id)]_vars

\* an id is approved again after an earlier approval of it
C3_Witness ==
    /\ op = "reimburse"
    /\ args.request_id \in approved_earlier
    /\ result = ApprovedResult(args.request_id)

\* C4: the form return_form produces from a snapshot has as 'required' the list
\* of the snapshot's keys and as 'form_data' the snapshot, whether the snapshot
\* came as a dictionary or serialized; a snapshot made by create_request_form
\* yields a form that requires all four fields.
C4_RequiredIsKeySet ==
    LET Derived(d) ==
            /\ FormReturned
            /\ ReturnedForm.t = "dict"
            /\ Get(Get(ReturnedForm, "form"), "required") =
                   List([i \in 1..Len(d.v) |-> Str(d.v[i][1])])
            /\ Get(ReturnedForm, "form_data") = d
    IN op = "return_form" =>
           /\ args.form_request.t = "dict" => Derived(args.form_request)
           /\ \A d \in DictSnapshots :
                  args.form_request = json_dumps(d) => Derived(d)

\* the snapshot create_request_form made of a call without arguments is turned
\* into a form that requires all four fields
C4_Witness ==
    /\ FormReturned
    /\ args.form_request.t = "dict"
    /\ Keys(args.form_request) = FieldNames
    /\ Get(args.form_request, "date") = Str("<transaction date>")
    /\ Get(args.form_request, "request_id").v \in minted
    /\ Get(Get(ReturnedForm, "form"), "required") =
           List(<<Str("request_id"), Str("date"), Str("amount"), Str("purpose")>>)

\* C5: create_request_form returns request_id, date, amount and purpose, none of
\* them empty: a non-empty argument unchanged, and the field's fixed placeholder
\* for an argument that is None or ''.
C5_PlaceholderSubstitution ==
    LET Placeholder ==
            [date |-> Str("<transaction date>"),
             amount |-> Str("<transaction dollar amount>"),
             purpose |-> Str("<business justification/purpose of the transaction>")]
    IN op = "create_request_form" =>
           /\ Keys(result) = <<"request_id", "date", "amount", "purpose">>
           /\ \A i \in 1..Len(result.v) :
                  result.v[i][2].t = "str" /\ result.v[i][2].v # ""
           /\ \A f \in {"date", "amount", "purpose"} :
                  IF args[f] = None \/ args[f] = Str("")
                  THEN Get(result, f) = Placeholder[f]
                  ELSE Get(result, f) = args[f]

\* the call create_request_form(date='', amount='100', purpose=None)
C5_Witness ==
    /\ op = "create_request_form"
    /\ args = [date |-> Str(""), amount |-> Str("100"), purpose |-> None]
    /\ Get(result, "amount") = Str("100")
    /\ Get(result, "date") = Str("<transaction date>")

\* C6: every return_form call leaves skip_summarization and escalate true on the
\* context it was given and every other field of that context as it was;
\* create_request_form and reimburse leave the context alone.
C6_EscalationWrite ==
    [][/\ op' = "return_form" =>
              tool_context' = [args'.tool_context EXCEPT !.skip_summarization = TRUE,
                                                         !.escalate = TRUE]
       /\ op' \in {"create_request_form", "reimburse"} =>
              tool_context' = tool_context]_vars

\* C7 as claimed: a form made from a snapshot without a request id carries an id
\* that the registry knows.
C7_MintsWhenIdAbsent ==
    (FormReturned /\ ~HasKey(GivenSnapshot, "request_id")) =>
        /\ HasKey(Get(ReturnedForm, "form_data"), "request_id")
        /\ Get(Get(ReturnedForm, "form_data"), "request_id").v \in request_ids

\* C7 as amended: return_form never changes the registry, and a form made from a
\* snapshot without a request id carries none: its form_data is the snapshot.
C7_ReturnFormNeverMints ==
    /\ [][op' = "return_form" => request_ids' = request_ids]_vars
    /\ []((FormReturned /\ ~HasKey(GivenSnapshot, "request_id")) =>
              /\ Get(ReturnedForm, "form_data") = GivenSnapshot
              /\ ~HasKey(Get(ReturnedForm, "form_data"), "request_id"))

\* a form was made from a snapshot without a request id while ids are known
C7_Witness ==
    /\ FormReturned
    /\ ~HasKey(GivenSnapshot, "request_id")
    /\ Len(GivenSnapshot.v) > 0
    /\ request_ids # {}

\* C8: text that json.loads rejects makes return_form return an error value
\* rather than raise.
C8_MalformedSnapshotIsResult ==
    GivenMalformedText => result.t # "raise"

\* C10: the registry starts empty and only grows; only create_request_form adds
\* to it, exactly the id it returns; an id that reimburse approved is approved
\* by every later reimburse.
C10_AppendOnly ==
    /\ request_ids = {}
    /\ [][/\ request_ids \subseteq request_ids'
          /\ request_ids' # request_ids => op' = "create_request_form"
          /\ op' = "create_request_form" =>
                 request_ids' = request_ids \cup {Get(result', "request_id").v}
          /\ (op' = "reimburse" /\ args'.request_id \in approved_earlier') =>
                 result' = ApprovedResult(args'.request_id)]_vars

\* with two ids known, an id approved before is approved again
C10_Witness ==
    /\ Cardinality(request_ids) >= 2
    /\ op = "reimburse"
    /\ args.request_id \in approved_earlier
    /\ Get(result, "status") = Str("approved")

\* C9: under any interleaving of the conversations' steps no insertion is lost
\* (every returned id is in the registry), the ids returned are pairwise
\* distinct, and a reimburse begun after create_request_form returned its id
\* answers 'approved'.
C9_ConcurrentRegistrySafe ==
    /\ \A i \in 1..Len(returned) : returned[i] \in request_ids
    /\ \A i, j \in 1..Len(returned) : i # j => returned[i] # returned[j]
    /\ \A p \in Conversations :
           (pc[p] = "idle" /\ known_at_start[p] /\ outcome[p].t = "dict"
            /\ HasKey(outcome[p], "status")) =>
               outcome[p] = ApprovedResult(rid[p])

\* what of C9 the code does keep: no insertion is lost and a reimburse begun
\* after the id was returned approves it
ConcurrentInsertionsKept ==
    /\ \A i \in 1..Len(returned) : returned[i] \in request_ids
    /\ \A p \in Conversations :
           (pc[p] = "idle" /\ known_at_start[p] /\ outcome[p].t = "dict"
            /\ HasKey(outcome[p], "status")) =>
               outcome[p] = ApprovedResult(rid[p])

====
